---- MODULE Spec2Model ----
(***************************************************************************)
(* Route-planning core of backend/server.js: leg cost model, disruption    *)
(* overlay, graph builder, Dijkstra, network normalizer, facility          *)
(* ensurance and the batch task planner.                                   *)
(*                                                                         *)
(* Conventions of the model                                                *)
(*  - A JS string that the code inspects character by character (node ids, *)
(*    task ids) is a sequence of one-character strings; <<>> is the empty  *)
(*    string, which JS treats as falsy exactly like a missing field.       *)
(*  - An optional numeric field is a sequence of length 0 (absent or not a *)
(*    number) or 1 (the number).                                           *)
(*  - Nodes lie on the equator (lat = 0); lng is counted in half grid      *)
(*    steps, so the haversine distance of two nodes is                     *)
(*    HalfStepKm * |lng1 - lng2| and the arithmetic midpoint of two nodes  *)
(*    at even positions is again a grid position.                          *)
(*  - Numbers are exact integers in fixed units: timeHours in 1/HourTicks  *)
(*    hours, cost in half currency units, co2 in hundredths, the balanced  *)
(*    weights in tenths.                                                   *)
(***************************************************************************)
EXTENDS Integers, Sequences, FiniteSets, TLC

VARIABLES
  request,        \* body of the POST /api/plan/route call being served
  currentConfig,  \* the process-wide live config
  pc,             \* position of the handler: received, planning, done, hung
  tasks,          \* result of normalizeBatchRequest
  ti,             \* index (1-based) of the task planOneTask is working on
  ai,             \* index (1-based) of the next mode attempt of that task
  nodes,          \* working node list of the latest attempt
  edges,          \* working edge list of the latest attempt
  graph,          \* the graph the latest attempt handed to dijkstra
  attemptLog,     \* per task: the attempts made so far, in order
  planned,        \* results of the tasks finished so far
  response,       \* what the handler sent back
  dj,             \* state of a stand-alone dijkstra run
  idArgs,         \* argument tuples of makeEphemeralFacilityId calls
  legCall         \* a stand-alone computeLegStats call: arguments and result

vars == <<request, currentConfig, pc, tasks, ti, ai, nodes, edges, graph,
          attemptLog, planned, response, dj, idArgs, legCall>>

-----------------------------------------------------------------------------
(* Small helpers *)

Abs(x) == IF x < 0 THEN -x ELSE x

Max(a, b) == IF a > b THEN a ELSE b

Range(s) == {s[i] : i \in 1..Len(s)}

IsNumber(x) == Len(x) = 1

RECURSIVE SeqsUpTo(_, _)
SeqsUpTo(S, n) ==
  IF n = 0 THEN {<<>>}
  ELSE LET shorter == SeqsUpTo(S, n - 1)
       IN shorter \cup {Append(s, x) : s \in {t \in shorter : Len(t) = n - 1}, x \in S}

-----------------------------------------------------------------------------
(* Units *)

HalfStepKm == 50

HourTicks == 16800

-----------------------------------------------------------------------------
(* Geo and mode utilities *)

distanceKm(a, b) == HalfStepKm * Abs(b.lng - a.lng)

normalizeMode(mode) ==
  IF mode = "" THEN "road"
  ELSE IF mode = "1" \/ mode = "road" THEN "road"
  ELSE IF mode = "2" \/ mode = "sea" THEN "sea"
  ELSE IF mode = "3" \/ mode = "air" THEN "air"
  ELSE IF mode = "4" \/ mode = "rail" THEN "rail"
  ELSE "road"

toLowerCase(s) ==
  CASE s = "PORT" -> "port"
    [] s = "Airport" -> "airport"
    [] s = "MIN_COST" -> "min_cost"
    [] s = "Balanced" -> "balanced"
    [] OTHER -> s

normalizeNodeType(t) ==
  IF t = "" THEN ""
  ELSE LET v == toLowerCase(t)
       IN IF v = "port" THEN "port"
          ELSE IF v = "airport" \/ v = "air" THEN "airport"
          ELSE IF v = "rail" \/ v = "rail_hub" THEN "rail"
          ELSE IF v = "warehouse" THEN "warehouse"
          ELSE v

-----------------------------------------------------------------------------
(* Config *)

defaultConfig ==
  [transport |->
     [road |-> [speedKmH |-> 60,  costPerKm |-> 4,  co2PerKm |-> 5],
      rail |-> [speedKmH |-> 80,  costPerKm |-> 2,  co2PerKm |-> 2],
      sea  |-> [speedKmH |-> 35,  costPerKm |-> 1,  co2PerKm |-> 8],
      air  |-> [speedKmH |-> 800, costPerKm |-> 16, co2PerKm |-> 50]],
   tariff |-> [crossBorderCost |-> 1000, crossBorderDelayHours |-> 12 * HourTicks],
   weights |-> [balancedCostWeight |-> <<5>>,
                balancedTimeWeight |-> <<3>>,
                balancedCo2Weight |-> <<2>>]]

-----------------------------------------------------------------------------
(* Leg cost model and disruption overlay *)

\* a test that takes every event of positive radius for one that applies
EventAppliesAnywhere(ev, mode, fromNode, toNode) ==
  IsNumber(ev.center) /\ IsNumber(ev.radiusKm) /\ ev.radiusKm[1] > 0

EventApplies(ev, mode, fromNode, toNode) ==
  /\ IsNumber(ev.center)
  /\ IsNumber(ev.radiusKm)
  /\ ev.radiusKm[1] > 0
  /\ (IsNumber(ev.affectedModes) => mode \in Range(ev.affectedModes[1]))
  /\ HalfStepKm * Abs(2 * ev.center[1] - (fromNode.lng + toNode.lng))
       <= 2 * ev.radiusKm[1]

eventId(ev) == IF ev.id # "" THEN ev.id ELSE IF ev.type # "" THEN ev.type ELSE "event"

RECURSIVE applyEvents(_, _, _, _, _, _)
applyEvents(events, i, mode, fromNode, toNode, acc) ==
  IF i > Len(events) THEN acc
  ELSE
    LET ev == events[i]
        delayHours == IF IsNumber(ev.delayHours) THEN ev.delayHours[1] ELSE 0
        costFactor == IF IsNumber(ev.costFactor) /\ ev.costFactor[1] > 0
                        THEN ev.costFactor[1] ELSE 1
        id == eventId(ev)
        hit == [timeHours |-> IF delayHours > 0
                                THEN acc.timeHours + delayHours * HourTicks
                                ELSE acc.timeHours,
                cost |-> acc.cost * costFactor,
                affectedEvents |-> IF id \in Range(acc.affectedEvents)
                                     THEN acc.affectedEvents
                                     ELSE Append(acc.affectedEvents, id),
                blocked |-> acc.blocked \/ ev.type = "block"]
    IN applyEvents(events, i + 1, mode, fromNode, toNode,
                   IF EventApplies(ev, mode, fromNode, toNode) THEN hit ELSE acc)

\* a test that takes an empty region for a region of its own
crossesBorderLoose(fromNode, toNode) == fromNode.region # toNode.region

\* the condition of line 273
crossesBorder(fromNode, toNode) ==
  fromNode.region # "" /\ toNode.region # "" /\ fromNode.region # toNode.region

computeLegStats(edge, fromNode, toNode, cfg, events) ==
  LET mode == normalizeMode(edge.mode)
      distance == IF IsNumber(edge.distanceKm) THEN edge.distanceKm[1]
                  ELSE distanceKm(fromNode, toNode)
      tCfg == cfg.transport[mode]
      speed == Max(tCfg.speedKmH, 1)
      time0 == IF IsNumber(edge.timeHours) /\ edge.timeHours[1] > 0
                 THEN edge.timeHours[1] * HourTicks
                 ELSE (distance * HourTicks) \div speed
      cost0 == IF IsNumber(edge.cost) /\ edge.cost[1] > 0
                 THEN edge.cost[1]
                 ELSE distance * tCfg.costPerKm
      crosses == crossesBorder(fromNode, toNode)
      base == [timeHours |-> IF crosses THEN time0 + cfg.tariff.crossBorderDelayHours
                             ELSE time0,
               cost |-> IF crosses THEN cost0 + cfg.tariff.crossBorderCost ELSE cost0,
               affectedEvents |-> <<>>,
               blocked |-> FALSE]
      after == applyEvents(events, 1, mode, fromNode, toNode, base)
  IN [mode |-> mode,
      distanceKm |-> distance,
      timeHours |-> after.timeHours,
      cost |-> after.cost,
      co2 |-> distance * tCfg.co2PerKm,
      affectedEvents |-> after.affectedEvents,
      blocked |-> after.blocked]

-----------------------------------------------------------------------------
(* Multi-objective weight function; reads the live config *)

computeWeight(stats, objective) ==
  LET obj == IF objective = "" THEN "fast" ELSE objective
  IN IF obj = "cheap" THEN stats.cost
     ELSE IF obj = "green" THEN stats.co2
     ELSE IF obj = "fast" THEN stats.timeHours
     ELSE IF obj = "balanced" THEN
       LET cfgWeights == IF "weights" \in DOMAIN currentConfig
                           THEN currentConfig.weights ELSE defaultConfig.weights
           a == IF IsNumber(cfgWeights.balancedCostWeight)
                  THEN cfgWeights.balancedCostWeight[1] ELSE 5
           b == IF IsNumber(cfgWeights.balancedTimeWeight)
                  THEN cfgWeights.balancedTimeWeight[1] ELSE 3
           c == IF IsNumber(cfgWeights.balancedCo2Weight)
                  THEN cfgWeights.balancedCo2Weight[1] ELSE 2
       IN stats.cost * a * 8400 + stats.timeHours * b + stats.co2 * c * 168
     ELSE stats.timeHours

-----------------------------------------------------------------------------
(* Plain objects used as maps *)

\* The planner keeps its maps (nodeMap, adj, dist, prev, visited) in plain
\* objects {}.  A read obj[key] of a key the object does not own falls through
\* to Object.prototype, whose members (toString, constructor, valueOf, ...) are
\* functions, hence truthy.  Two of those keys stand for all of them.
ObjectPrototypeKeys ==
  {<<"t", "o", "S", "t", "r", "i", "n", "g">>,
   <<"c", "o", "n", "s", "t", "r", "u", "c", "t", "o", "r">>}

\* obj[key] is an inherited member: a function, which has none of the fields
\* (id, lng, type, from, edge) the planner reads from its own values
inherits(keys, key) == key \notin keys /\ key \in ObjectPrototypeKeys

PrototypeMember == [inherited |-> TRUE]

\* map[key] is truthy, for a map whose own values are all truthy
truthyAt(map, key) == key \in DOMAIN map \/ inherits(DOMAIN map, key)

\* map[key]
valueAt(map, key) == IF key \in DOMAIN map THEN map[key] ELSE PrototypeMember

-----------------------------------------------------------------------------
(* Graph builder *)

\* ids of a node list in insertion order, each once (Object.keys order)
RECURSIVE keysOf(_, _, _)
keysOf(ns, i, acc) ==
  IF i > Len(ns) THEN acc
  ELSE keysOf(ns, i + 1,
              IF ns[i].id \in Range(acc) THEN acc ELSE Append(acc, ns[i].id))

\* nodeMap[n.id] = n for every node in list order: the last one wins
buildNodeMap(ns) ==
  [id \in {ns[i].id : i \in 1..Len(ns)} |->
     ns[CHOOSE i \in 1..Len(ns) :
          ns[i].id = id /\ \A j \in (i + 1)..Len(ns) : ns[j].id # id]]

adjEntry(e, nodeMap, cfg, objective, events) ==
  LET stats == computeLegStats(e, nodeMap[e.from], nodeMap[e.to], cfg, events)
  IN [to |-> e.to,
      mode |-> stats.mode,
      distanceKm |-> stats.distanceKm,
      timeHours |-> stats.timeHours,
      cost |-> stats.cost,
      co2 |-> stats.co2,
      affectedEvents |-> stats.affectedEvents,
      weight |-> computeWeight(stats, objective)]

\* a builder that takes no edge for blocked
edgeNeverBlocked(e, nodeMap, cfg, events) == FALSE

\* stats.blocked of line 368
edgeBlocked(e, nodeMap, cfg, events) ==
  computeLegStats(e, nodeMap[e.from], nodeMap[e.to], cfg, events).blocked

\* no edge of the networks below starts at a name adj = {} inherits, for which
\* line 371 would find no push
buildGraph(ns, es, cfg, objective, events) ==
  LET nodeMap == buildNodeMap(ns)
      kept == SelectSeq(es, LAMBDA e :
                 /\ truthyAt(nodeMap, e.from)
                 /\ truthyAt(nodeMap, e.to)
                 /\ ~edgeBlocked(e, nodeMap, cfg, events))
  IN [keys |-> keysOf(ns, 1, <<>>),
      nodeMap |-> nodeMap,
      adj |-> [id \in DOMAIN nodeMap |->
                 LET mine == SelectSeq(kept, LAMBDA e : e.from = id)
                 IN [k \in 1..Len(mine) |->
                       adjEntry(mine[k], nodeMap, cfg, objective, events)]]]

-----------------------------------------------------------------------------
(* Shortest-path solver *)

\* a tentative distance: Infinity or a finite number
Infinity == [inf |-> TRUE, v |-> 0]

Finite(x) == [inf |-> FALSE, v |-> x]

Lt(a, b) == ~a.inf /\ (b.inf \/ a.v < b.v)

\* dist, prev and visited of a fresh run (lines 455-462)
dijkstraInit(g, originId, destinationId) ==
  LET ids == DOMAIN g.nodeMap
  IN [graph |-> g,
      originId |-> originId,
      destinationId |-> destinationId,
      keys |-> IF originId \in ids THEN g.keys ELSE Append(g.keys, originId),
      dist |-> [id \in ids \cup {originId} |->
                  IF id = originId THEN Finite(0) ELSE Infinity],
      prev |-> [id \in ids |-> <<>>],
      visited |-> {},
      phase |-> "select",
      cur |-> destinationId,
      path |-> <<>>,
      steps |-> 0]

\* visited[id] of line 468: true once set at line 475, and truthy from the
\* start for a key that visited = {} inherits
isVisited(visited, id) == id \in visited \/ inherits(visited, id)

\* the scan of lines 467-472: the first unvisited key of least distance
RECURSIVE scanMin(_, _, _, _, _, _)
scanMin(keys, i, dist, visited, u, best) ==
  IF i > Len(keys) THEN u
  ELSE LET id == keys[i]
       IN IF ~isVisited(visited, id) /\ Lt(dist[id], best)
            THEN scanMin(keys, i + 1, dist, visited, <<id>>, dist[id])
            ELSE scanMin(keys, i + 1, dist, visited, u, best)

\* the relaxation of lines 477-484 over the neighbours of u, in list order
RECURSIVE relax(_, _, _, _, _)
relax(neighbors, i, u, dist, prev) ==
  IF i > Len(neighbors) THEN [dist |-> dist, prev |-> prev]
  ELSE LET edge == neighbors[i]
           v == edge.to
           alt == Finite(dist[u].v + edge.weight)
       IN IF v \in DOMAIN dist /\ Lt(alt, dist[v])
            THEN relax(neighbors, i + 1, u,
                       [dist EXCEPT ![v] = alt],
                       [id \in DOMAIN prev \cup {v} |->
                          IF id = v THEN <<[from |-> u, edge |-> edge]>>
                          ELSE prev[id]])
            ELSE relax(neighbors, i + 1, u, dist, prev)

\* prev[id] is truthy: an own back-pointer, or an inherited member
hasPrev(prev, id) ==
  \/ id \in DOMAIN prev /\ prev[id] # <<>>
  \/ inherits(DOMAIN prev, id)

prevOf(prev, id) == IF id \in DOMAIN prev THEN prev[id][1] ELSE PrototypeMember

\* one iteration of the while loop of lines 464-485, or the check of line 487
dijkstraSelect(st) ==
  LET u == scanMin(st.keys, 1, st.dist, st.visited, <<>>, Infinity)
      leave == [st EXCEPT !.phase = IF hasPrev(st.prev, st.destinationId)
                                      THEN "walk" ELSE "null"]
  IN IF u = <<>> THEN leave
     ELSE IF u[1] = st.destinationId THEN leave
     ELSE LET \* graph.adj[u] || []; u is never an inherited key of adj,
              \* because such a key counts as visited
              neighbors == IF u[1] \in DOMAIN st.graph.adj
                             THEN st.graph.adj[u[1]] ELSE <<>>
              r == relax(neighbors, 1, u[1], st.dist, st.prev)
          IN [st EXCEPT !.visited = st.visited \cup {u[1]},
                        !.dist = r.dist,
                        !.prev = r.prev]

\* a walk that appends each step where line 494 prepends it
dijkstraWalkPush(st) ==
  IF hasPrev(st.prev, st.cur)
    THEN LET step == prevOf(st.prev, st.cur)
         IN [st EXCEPT !.path = Append(st.path, step),
                       !.cur = IF "from" \in DOMAIN step THEN step.from ELSE <<>>,
                       !.steps = st.steps + 1]
    ELSE [st EXCEPT !.phase = "path"]

\* one iteration of the while loop of lines 493-496, or the return of line 497
dijkstraWalk(st) ==
  IF hasPrev(st.prev, st.cur)
    THEN LET step == prevOf(st.prev, st.cur)
         IN [st EXCEPT !.path = <<step>> \o st.path,
                       !.cur = IF "from" \in DOMAIN step THEN step.from ELSE <<>>,
                       !.steps = st.steps + 1]
    ELSE [st EXCEPT !.phase = "path"]

\* the back-pointer walk has come back to a node it already left: the chain
\* is a cycle and the loop of lines 493-496 never ends
walkLoops(st) == st.phase = "walk" /\ st.steps > Cardinality(DOMAIN st.prev) + 1

dijkstraStep(st) ==
  IF st.phase = "select" THEN dijkstraSelect(st)
  ELSE IF st.phase = "walk" /\ ~walkLoops(st) THEN dijkstraWalk(st)
  ELSE IF st.phase = "walk" THEN [st EXCEPT !.phase = "diverges"]
  ELSE st

RECURSIVE dijkstraRun(_)
dijkstraRun(st) ==
  IF st.phase \in {"null", "path", "diverges"} THEN st
  ELSE dijkstraRun(dijkstraStep(st))

\* dijkstra(graph, originId, destinationId): kind is "null", "path", or
\* "diverges" when the call never returns
dijkstra(g, originId, destinationId) ==
  LET end == dijkstraRun(dijkstraInit(g, originId, destinationId))
  IN [kind |-> end.phase, path |-> end.path]

-----------------------------------------------------------------------------
(* Strings *)

\* the characters of the literals the planner concatenates into ids and keys
Chars(s) ==
  CASE s = "EPH_" -> <<"E", "P", "H", "_">>
    [] s = "task" -> <<"t", "a", "s", "k">>
    [] s = "task-" -> <<"t", "a", "s", "k", "-">>
    [] s = "node" -> <<"n", "o", "d", "e">>
    [] s = "endpoint" -> <<"e", "n", "d", "p", "o", "i", "n", "t">>
    [] s = "origin" -> <<"o", "r", "i", "g", "i", "n">>
    [] s = "destination" -> <<"d", "e", "s", "t", "i", "n", "a", "t", "i", "o", "n">>
    [] s = "airport" -> <<"a", "i", "r", "p", "o", "r", "t">>
    [] s = "port" -> <<"p", "o", "r", "t">>
    [] s = "rail" -> <<"r", "a", "i", "l">>
    [] s = "road" -> <<"r", "o", "a", "d">>
    [] s = "sea" -> <<"s", "e", "a">>
    [] s = "air" -> <<"a", "i", "r">>
    [] s = "" -> <<>>

\* the character class [a-zA-Z0-9_-] of lines 981-986
SafeChars ==
  {"a", "b", "c", "d", "e", "f", "g", "h", "i", "j", "k", "l", "m",
   "n", "o", "p", "q", "r", "s", "t", "u", "v", "w", "x", "y", "z",
   "A", "B", "C", "D", "E", "F", "G", "H", "I", "J", "K", "L", "M",
   "N", "O", "P", "Q", "R", "S", "T", "U", "V", "W", "X", "Y", "Z",
   "0", "1", "2", "3", "4", "5", "6", "7", "8", "9", "_", "-"}

\* s.replace(/[^a-zA-Z0-9_-]/g, "_")
sanitize(s) == [i \in 1..Len(s) |-> IF s[i] \in SafeChars THEN s[i] ELSE "_"]

Digit(d) == CASE d = 0 -> "0" [] d = 1 -> "1" [] d = 2 -> "2" [] d = 3 -> "3"
              [] d = 4 -> "4" [] d = 5 -> "5" [] d = 6 -> "6" [] d = 7 -> "7"
              [] d = 8 -> "8" [] d = 9 -> "9"

\* the decimal digits of a natural number, as template literals print it
RECURSIVE decimal(_)
decimal(n) == IF n < 10 THEN <<Digit(n)>> ELSE Append(decimal(n \div 10), Digit(n % 10))

makeEphemeralFacilityId(taskId, endpointId, facilityType, role) ==
  LET safeTask == sanitize(IF taskId = <<>> THEN Chars("task") ELSE taskId)
      safeEndpoint == sanitize(IF endpointId = <<>> THEN Chars("node") ELSE endpointId)
      safeRole == sanitize(IF role = <<>> THEN Chars("endpoint") ELSE role)
  IN Chars("EPH_") \o safeTask \o <<"_">> \o safeEndpoint \o <<"_">>
       \o facilityType \o <<"_">> \o safeRole

-----------------------------------------------------------------------------
(* Batch request and objective normalisation *)

normalizeBatchRequest(req) ==
  LET list == IF IsNumber(req.tasks)
                THEN <<SelectSeq(req.tasks[1], LAMBDA t : ~t.falsy)>> ELSE <<>>
  IN IF list # <<>> /\ Len(list[1]) > 0
       THEN [idx \in 1..Len(list[1]) |->
               LET t == list[1][idx]
               IN [taskId |-> IF t.taskId # <<>> THEN t.taskId
                              ELSE Chars("task-") \o decimal(idx),
                   originId |-> t.originId,
                   destinationId |-> t.destinationId,
                   objectiveRaw |-> t.objective]]
       ELSE <<[taskId |-> IF req.taskId # <<>> THEN req.taskId
                          ELSE Chars("task-") \o decimal(1),
               originId |-> req.originId,
               destinationId |-> req.destinationId,
               objectiveRaw |-> req.objective]>>

normalizeObjectiveToGraph(obj) ==
  IF obj = "" THEN "fast"
  ELSE LET v == toLowerCase(obj)
       IN IF v = "min_time" THEN "fast"
          ELSE IF v = "min_cost" THEN "cheap"
          ELSE IF v = "min_co2" THEN "green"
          ELSE IF v \in {"fast", "cheap", "green", "balanced"} THEN v
          ELSE "fast"

normalizeObjectiveToOutput(obj) ==
  IF obj = "" THEN "min_time"
  ELSE LET v == toLowerCase(obj)
       IN IF v \in {"min_time", "min_cost", "min_co2"} THEN v
          ELSE IF v = "fast" THEN "min_time"
          ELSE IF v = "cheap" THEN "min_cost"
          ELSE IF v = "green" THEN "min_co2"
          ELSE "min_time"

decideModeAttempts(objectiveOut) ==
  IF objectiveOut = "min_time" THEN <<<<"road", "air">>>>
  ELSE IF objectiveOut = "min_cost"
    THEN << <<"road", "sea">>,
            <<"road", "sea", "rail">>,
            <<"road", "sea", "rail", "air">> >>
  ELSE IF objectiveOut = "min_co2" THEN <<<<"road", "rail", "sea">>>>
  ELSE <<<<"road", "rail", "sea", "air">>>>

-----------------------------------------------------------------------------
(* Network normalizer *)

RECURSIVE normalizeNodes(_, _, _)
normalizeNodes(ns, i, acc) ==
  IF i > Len(ns) THEN acc
  ELSE LET n == ns[i]
           keep == /\ n.id # <<>>
                   /\ n.id \notin {acc[k].id : k \in 1..Len(acc)}
                   /\ IsNumber(n.lng)
       IN normalizeNodes(ns, i + 1,
            IF keep
              THEN Append(acc, [id |-> n.id,
                                lng |-> n.lng[1],
                                region |-> n.region,
                                type |-> normalizeNodeType(n.type),
                                ephemeral |-> n.ephemeral])
              ELSE acc)

edgeKey(e) == e.from \o <<"|">> \o e.to \o <<"|">> \o Chars(normalizeMode(e.mode))

RECURSIVE normalizeEdges(_, _, _, _)
normalizeEdges(es, i, nodeMap, acc) ==
  IF i > Len(es) THEN acc
  ELSE LET e == es[i]
           keep == /\ truthyAt(nodeMap, e.from)
                   /\ truthyAt(nodeMap, e.to)
                   /\ edgeKey(e) \notin {edgeKey(acc[k]) : k \in 1..Len(acc)}
       IN normalizeEdges(es, i + 1, nodeMap,
            IF keep THEN Append(acc, [e EXCEPT !.mode = normalizeMode(e.mode)])
            ELSE acc)

normalizeNetwork(ns, es) ==
  LET normalizedNodes == normalizeNodes(ns, 1, <<>>)
  IN [nodes |-> normalizedNodes,
      edges |-> normalizeEdges(es, 1, buildNodeMap(normalizedNodes), <<>>)]

-----------------------------------------------------------------------------
(* Facility ensurance *)

buildFacilityIndex(ns) ==
  [t \in {"airport", "port", "rail"} |->
     SelectSeq(ns, LAMBDA n : normalizeNodeType(n.type) = t)]

\* the first candidate of least distance (strict < at line 972); <<>> is null
RECURSIVE findNearestNodeId(_, _, _, _, _)
findNearestNodeId(fromNode, candidates, i, bestId, bestDist) ==
  IF i > Len(candidates) THEN bestId
  ELSE LET c == candidates[i]
           d == Finite(distanceKm(fromNode, c))
       IN IF Lt(d, bestDist)
            THEN findNearestNodeId(fromNode, candidates, i + 1, c.id, d)
            ELSE findNearestNodeId(fromNode, candidates, i + 1, bestId, bestDist)

upsertEdge(es, from, to, mode) ==
  LET m == normalizeMode(mode)
  IN IF \E k \in 1..Len(es) :
          es[k].from = from /\ es[k].to = to /\ normalizeMode(es[k].mode) = m
       THEN es
       ELSE Append(es, [from |-> from, to |-> to, mode |-> m,
                        distanceKm |-> <<>>, timeHours |-> <<>>, cost |-> <<>>])

\* n.f, or the given stand-in for undefined when n has no such field
fieldOf(n, f, undefined) == IF f \in DOMAIN n THEN n[f] ELSE undefined

\* selectFacilityId on the working state w = [nodes, ids, edges, ephemeralNodes];
\* ids are the keys of the nodeMap of line 864; returns the id and the state
selectFacilityId(taskId, w, index, endpointNode, facilityType, role) ==
  LET endpointType == normalizeNodeType(fieldOf(endpointNode, "type", ""))
      candidates == index[facilityType]
      eid == makeEphemeralFacilityId(taskId, fieldOf(endpointNode, "id", <<>>),
                                     Chars(facilityType), Chars(role))
      created == [id |-> eid,
                  lng |-> fieldOf(endpointNode, "lng", <<>>),
                  region |-> fieldOf(endpointNode, "region", ""),
                  type |-> facilityType,
                  ephemeral |-> TRUE]
  IN IF endpointType = facilityType THEN [id |-> endpointNode.id, w |-> w]
     ELSE IF Len(candidates) > 0
       THEN [id |-> IF "lng" \in DOMAIN endpointNode
                      THEN findNearestNodeId(endpointNode, candidates, 1, <<>>, Infinity)
                      ELSE <<>>,
             w |-> w]
     ELSE IF eid \in w.ids THEN [id |-> eid, w |-> w]
     ELSE [id |-> eid,
           w |-> [w EXCEPT !.nodes = Append(w.nodes, created),
                           !.ids = w.ids \cup {eid}]]

ensureAccessForFacilityType(taskId, w, index, originNode, destinationNode, facilityType) ==
  LET o == selectFacilityId(taskId, w, index, originNode, facilityType, "origin")
      d == selectFacilityId(taskId, o.w, index, destinationNode, facilityType,
                            "destination")
      originId == fieldOf(originNode, "id", <<>>)
      destinationId == fieldOf(destinationNode, "id", <<>>)
      e1 == IF o.id # <<>> /\ o.id # originId
              THEN upsertEdge(upsertEdge(d.w.edges, originId, o.id, "road"),
                              o.id, originId, "road")
              ELSE d.w.edges
      e2 == IF d.id # <<>> /\ d.id # destinationId
              THEN upsertEdge(upsertEdge(e1, destinationId, d.id, "road"),
                              d.id, destinationId, "road")
              ELSE e1
      before == Len(w.nodes)
      added == SubSeq(d.w.nodes, before + 1, Len(d.w.nodes))
  IN [d.w EXCEPT !.edges = e2,
                 !.ephemeralNodes = w.ephemeralNodes
                                      \o SelectSeq(added, LAMBDA n : n.ephemeral)]

requiredFacilityTypes(allowedModes) ==
  LET typeOf(m) == LET mode == normalizeMode(m)
                   IN IF mode = "air" THEN <<"airport">>
                      ELSE IF mode = "sea" THEN <<"port">>
                      ELSE IF mode = "rail" THEN <<"rail">>
                      ELSE <<>>
      all[i \in 0..Len(allowedModes)] ==
        IF i = 0 THEN <<>>
        ELSE LET t == typeOf(allowedModes[i])
             IN IF t = <<>> \/ t[1] \in Range(all[i - 1]) THEN all[i - 1]
                ELSE all[i - 1] \o t
  IN all[Len(allowedModes)]

RECURSIVE ensureEach(_, _, _, _, _, _, _)
ensureEach(taskId, w, index, originNode, destinationNode, types, i) ==
  IF i > Len(types) THEN w
  ELSE ensureEach(taskId,
                  ensureAccessForFacilityType(taskId, w, index, originNode,
                                              destinationNode, types[i]),
                  index, originNode, destinationNode, types, i + 1)

ensureFacilitiesForModes(taskId, ns, es, originNode, destinationNode, allowedModes) ==
  LET w0 == [nodes |-> ns,
             ids |-> DOMAIN buildNodeMap(ns),
             edges |-> es,
             ephemeralNodes |-> <<>>]
      w == ensureEach(taskId, w0, buildFacilityIndex(ns), originNode,
                      destinationNode, requiredFacilityTypes(allowedModes), 1)
  IN [nodes |-> w.nodes, edges |-> w.edges, ephemeralNodes |-> w.ephemeralNodes]

\* a filter that keeps every edge of an allowed mode, whatever it connects
filterEdgesByModes(ns, es, allowedModes) ==
  LET nodeMap == buildNodeMap(ns)
      allowed == {normalizeMode(allowedModes[i]) : i \in 1..Len(allowedModes)}
  IN SelectSeq(es, LAMBDA e : /\ truthyAt(nodeMap, e.from)
                              /\ truthyAt(nodeMap, e.to)
                              /\ normalizeMode(e.mode) \in allowed)

filterEdgesByConstraintsAndModes(ns, es, allowedModes) ==
  LET nodeMap == buildNodeMap(ns)
      allowed == {normalizeMode(allowedModes[i]) : i \in 1..Len(allowedModes)}
      ok(e) ==
        LET mode == normalizeMode(e.mode)
        IN /\ truthyAt(nodeMap, e.from)
           /\ truthyAt(nodeMap, e.to)
           /\ mode \in allowed
           /\ \/ mode = "road"
              \/ LET fromType == normalizeNodeType(
                                   fieldOf(valueAt(nodeMap, e.from), "type", ""))
                     toType == normalizeNodeType(
                                 fieldOf(valueAt(nodeMap, e.to), "type", ""))
                 IN \/ mode = "air" /\ fromType = "airport" /\ toType = "airport"
                    \/ mode = "sea" /\ fromType = "port" /\ toType = "port"
                    \/ mode = "rail" /\ fromType = "rail" /\ toType = "rail"
  IN SelectSeq(es, ok)

buildRenderHints(legs) ==
  [idx \in 1..Len(legs) |->
     LET mode == normalizeMode(legs[idx].mode)
     IN IF mode = "road"
          THEN [legIndex |-> idx - 1, mode |-> "road", type |-> "navigation"]
          ELSE [legIndex |-> idx - 1, mode |-> mode, type |-> "arc"]]

-----------------------------------------------------------------------------
(* Batch task planner *)

\* JSON.parse(JSON.stringify(arr)) of a list that came out of a JSON body:
\* a fresh list of the same content; [] for a missing list
cloneArray(arr) == IF IsNumber(arr) THEN arr[1] ELSE <<>>

NoGraph == [keys |-> <<>>, nodeMap |-> <<>>, adj |-> <<>>]

NullResult(task) ==
  [taskId |-> task.taskId,
   objective |-> normalizeObjectiveToOutput(task.objectiveRaw),
   solution |-> <<>>]

\* the promise an async planOneTask call returns, once settled
Fulfilled(result) == [state |-> "fulfilled", value |-> result]

Rejected == [state |-> "rejected", value |-> <<>>]

\* lines 762-771: the legs of a path
legsOfPath(path) ==
  [k \in 1..Len(path) |->
     [fromId |-> path[k].from,
      toId |-> path[k].edge.to,
      mode |-> path[k].edge.mode,
      distanceKm |-> path[k].edge.distanceKm,
      timeHours |-> path[k].edge.timeHours,
      cost |-> path[k].edge.cost,
      co2 |-> path[k].edge.co2,
      affectedEvents |-> path[k].edge.affectedEvents]]

\* lines 773-780: the ids the legs use
usedIds(legs) ==
  {legs[k].fromId : k \in 1..Len(legs)} \cup {legs[k].toId : k \in 1..Len(legs)}

\* a solution that lists every node the attempt synthesized
solutionOfLegsUntrimmed(legs, ephemeralNodes) ==
  [legs |-> legs,
   ephemeralNodes |-> ephemeralNodes,
   renderHints |-> buildRenderHints(legs)]

\* lines 773-790: the solution made of the legs
solutionOfLegs(legs, ephemeralNodes) ==
  [legs |-> legs,
   ephemeralNodes |-> SelectSeq(ephemeralNodes,
                                LAMBDA n : n.id # <<>> /\ n.id \in usedIds(legs)),
   renderHints |-> buildRenderHints(legs)]

\* lines 760-791: what the attempt comes to once dijkstra has returned
attemptFound(ensured, g, found) ==
  IF found.kind = "diverges"
    THEN [kind |-> "diverges", nodes |-> ensured.nodes, edges |-> ensured.edges,
          graph |-> g, solution |-> <<>>]
  ELSE IF found.kind = "null" \/ Len(found.path) = 0
    THEN [kind |-> "nopath", nodes |-> ensured.nodes, edges |-> ensured.edges,
          graph |-> g, solution |-> <<>>]
  ELSE IF \E k \in 1..Len(found.path) : "edge" \notin DOMAIN found.path[k]
    THEN \* step.edge is undefined at line 764: TypeError
         [kind |-> "throws", nodes |-> ensured.nodes, edges |-> ensured.edges,
          graph |-> g, solution |-> <<>>]
  ELSE [kind |-> "path", nodes |-> ensured.nodes, edges |-> ensured.edges,
        graph |-> g,
        solution |-> <<solutionOfLegs(legsOfPath(found.path),
                                      ensured.ephemeralNodes)>>]

\* line 759
attemptGraph(task, ensured, g) ==
  attemptFound(ensured, g, dijkstra(g, task.originId, task.destinationId))

\* lines 745-757
attemptEnsured(task, ensured, events, allowedModes) ==
  attemptGraph(task, ensured,
               buildGraph(ensured.nodes,
                          filterEdgesByConstraintsAndModes(ensured.nodes,
                                                           ensured.edges,
                                                           allowedModes),
                          currentConfig,
                          normalizeObjectiveToGraph(task.objectiveRaw), events))

\* lines 729-743
attemptNormalized(task, normalized, nodeMap, events, allowedModes) ==
  IF ~(truthyAt(nodeMap, task.originId) /\ truthyAt(nodeMap, task.destinationId))
    THEN [kind |-> "unknown", nodes |-> normalized.nodes,
          edges |-> normalized.edges, graph |-> NoGraph, solution |-> <<>>]
    ELSE attemptEnsured(task,
                        ensureFacilitiesForModes(task.taskId, normalized.nodes,
                                                 normalized.edges,
                                                 valueAt(nodeMap, task.originId),
                                                 valueAt(nodeMap, task.destinationId),
                                                 allowedModes),
                        events, allowedModes)

\* lines 725-729
attemptNetwork(task, normalized, events, allowedModes) ==
  attemptNormalized(task, normalized, buildNodeMap(normalized.nodes), events,
                    allowedModes)

\* a working node as an entry of a caller's list
asInput(n) == [n EXCEPT !.lng = <<n.lng>>]

\* an attempt that appends to the caller's lists instead of to lists of its own
leaveInPlace(r) ==
  [baseNodes |-> <<[k \in 1..Len(r.nodes) |-> asInput(r.nodes[k])]>>,
   baseEdges |-> <<r.edges>>] @@ r

\* a loop that plans on the caller's lists themselves
planAttemptInPlace(task, baseNodes, baseEdges, events, allowedModes) ==
  leaveInPlace(attemptNetwork(task,
                              normalizeNetwork(cloneArray(baseNodes),
                                               cloneArray(baseEdges)),
                              events, allowedModes))

\* one iteration of the loop of lines 720-792 for the given mode set; the
\* request carries its own node and edge lists, so line 721 builds no default.
\* The working lists are the arrays normalizeNetwork builds from the clones,
\* so what the attempt appends never reaches baseNodes and baseEdges: the
\* result carries the caller's lists as the attempt leaves them
planAttempt(task, baseNodes, baseEdges, events, allowedModes) ==
  [baseNodes |-> baseNodes, baseEdges |-> baseEdges]
    @@ attemptNetwork(task,
                      normalizeNetwork(cloneArray(baseNodes), cloneArray(baseEdges)),
                      events, allowedModes)

curTask == tasks[ti]

\* a loop that gives up after its first attempt
continuesNever(r) == FALSE

\* line 760: the attempt found no path and the loop goes on to the next set
continues(r) == r.kind = "nopath"

modeAttempts == decideModeAttempts(normalizeObjectiveToOutput(curTask.objectiveRaw))

\* planOneTask(task, ...) from attempt k on: what the call comes to
RECURSIVE planFrom(_, _, _, _, _)
planFrom(task, baseNodes, baseEdges, events, k) ==
  LET sets == decideModeAttempts(normalizeObjectiveToOutput(task.objectiveRaw))
      r == planAttempt(task, baseNodes, baseEdges, events, sets[k])
  IN IF r.kind = "diverges" THEN [state |-> "pending", value |-> <<>>]
     ELSE IF continues(r) /\ k < Len(sets)
       THEN planFrom(task, baseNodes, baseEdges, events, k + 1)
     ELSE IF r.kind = "throws" THEN Rejected
     ELSE Fulfilled([NullResult(task) EXCEPT !.solution = r.solution])

planOneTask(task, baseNodes, baseEdges, events) ==
  IF task.originId = <<>> \/ task.destinationId = <<>>
    THEN Fulfilled(NullResult(task))
    ELSE planFrom(task, baseNodes, baseEdges, events, 1)

\* POST /api/plan/route enters planScenario: the batch is normalised
PlanScenario ==
  /\ pc = "received"
  /\ LET ts == normalizeBatchRequest(request)
     IN /\ tasks' = ts
        /\ attemptLog' = [i \in 1..Len(ts) |-> <<>>]
        /\ IF Len(ts) = 0
             THEN pc' = "done" /\ response' = [status |-> 200, body |-> <<>>]
             ELSE pc' = "planning" /\ UNCHANGED response
  /\ ti' = 1
  /\ ai' = 1
  /\ planned' = <<>>
  /\ UNCHANGED <<request, currentConfig, nodes, edges, graph, dj, idArgs, legCall>>

\* planOneTask returns at line 716: the task names no origin or no destination
RejectTask ==
  /\ pc = "planning"
  /\ ti <= Len(tasks)
  /\ curTask.originId = <<>> \/ curTask.destinationId = <<>>
  /\ planned' = Append(planned, Fulfilled(NullResult(curTask)))
  /\ ti' = ti + 1
  /\ ai' = 1
  /\ UNCHANGED <<request, currentConfig, pc, tasks, nodes, edges, graph,
                 attemptLog, response, dj, idArgs, legCall>>

\* planOneTask runs the next mode attempt of the current task and, when the
\* attempt ends the task, returns its result
Attempt ==
  /\ pc = "planning"
  /\ ti <= Len(tasks)
  /\ curTask.originId # <<>> /\ curTask.destinationId # <<>>
  /\ ai <= Len(modeAttempts)
  /\ \E r \in {planAttempt(curTask, request.nodes, request.edges,
                            request.events, modeAttempts[ai])} :
     LET allowedModes == modeAttempts[ai]
         last == ai = Len(modeAttempts)
     IN /\ request' = [request EXCEPT !.nodes = r.baseNodes, !.edges = r.baseEdges]
        /\ nodes' = r.nodes
        /\ edges' = r.edges
        /\ graph' = r.graph
        /\ attemptLog' = [attemptLog EXCEPT ![ti] =
                            Append(@, [allowedModes |-> allowedModes, kind |-> r.kind,
                                       config |-> currentConfig])]
        /\ IF r.kind = "diverges"
             THEN pc' = "hung" /\ UNCHANGED <<ti, ai, planned>>
           ELSE IF continues(r) /\ ~last
             THEN ai' = ai + 1 /\ UNCHANGED <<pc, ti, planned>>
           ELSE /\ planned' = Append(planned,
                                  IF r.kind = "throws" THEN Rejected
                                  ELSE Fulfilled([NullResult(curTask) EXCEPT
                                                    !.solution = r.solution]))
                /\ ti' = ti + 1
                /\ ai' = 1
                /\ UNCHANGED pc
  /\ UNCHANGED <<currentConfig, tasks, response, dj, idArgs, legCall>>

\* Promise.all settles: the handler sends the list of results, or 500 when a
\* planOneTask promise was rejected (lines 1140-1152)
Respond ==
  /\ pc = "planning"
  /\ ti > Len(tasks)
  /\ pc' = "done"
  /\ response' = IF \E i \in 1..Len(planned) : planned[i].state = "rejected"
                   THEN [status |-> 500, body |-> <<>>]
                   ELSE [status |-> 200,
                         body |-> [i \in 1..Len(planned) |-> planned[i].value]]
  /\ UNCHANGED <<request, currentConfig, tasks, ti, ai, nodes, edges, graph,
                 attemptLog, planned, dj, idArgs, legCall>>

-----------------------------------------------------------------------------
(* Requests the planner is run on *)

MaxEdges == 2

MaxRadius == 1

MaxTasks == 2

A == <<"A">>

B == <<"B">>

C == <<"C">>

Z == <<"Z">>

\* an id no node of a request carries, but every plain object inherits
ToStringKey == <<"t", "o", "S", "t", "r", "i", "n", "g">>

RawTypes == {"", "port", "air", "rail_hub"}

Modes == {"road", "sea", "air", "rail"}

Node(id, lng, type, region) ==
  [id |-> id, lng |-> <<lng>>, type |-> type, region |-> region, ephemeral |-> FALSE]

Edge(from, to, mode, distance) ==
  [from |-> from, to |-> to, mode |-> mode,
   distanceKm |-> distance, timeHours |-> <<>>, cost |-> <<>>]

Task(taskId, originId, destinationId, objective) ==
  [falsy |-> FALSE, taskId |-> taskId, originId |-> originId,
   destinationId |-> destinationId, objective |-> objective]

\* a null entry of the tasks list
NullEntry == [Task(<<>>, <<>>, <<>>, "") EXCEPT !.falsy = TRUE]

\* three nodes in a row, A and B in one region and C in another
Nodes3(tA, tB, tC) ==
  <<Node(A, 0, tA, "CN"), Node(B, 4, tB, "CN"), Node(C, 8, tC, "EU")>>

\* the sublists of a list of candidates that have at most n entries
RECURSIVE SubLists(_, _)
SubLists(cands, n) ==
  IF Len(cands) = 0 \/ n = 0 THEN {<<>>}
  ELSE LET rest == SubSeq(cands, 2, Len(cands))
       IN SubLists(rest, n) \cup {<<cands[1]>> \o s : s \in SubLists(rest, n - 1)}

TopologyEdges ==
  <<Edge(A, B, "road", <<>>), Edge(A, B, "rail", <<>>),
    Edge(B, C, "road", <<>>), Edge(B, C, "sea", <<>>), Edge(B, C, "air", <<>>),
    Edge(A, C, "road", <<>>), Edge(A, C, "rail", <<>>),
    Edge(A, B, "road", <<-400>>)>>

EventEdges ==
  <<Edge(A, B, "road", <<>>), Edge(B, C, "", <<>>), Edge(B, C, "2", <<>>),
    Edge(A, C, "road", <<600>>), Edge(A, B, "truck", <<>>)>>

Event(type, center, radiusKm, affectedModes, delayHours, costFactor) ==
  [id |-> "", type |-> type, center |-> <<center>>, radiusKm |-> <<radiusKm>>,
   affectedModes |-> affectedModes, delayHours |-> delayHours,
   costFactor |-> costFactor]

Events1 ==
  {Event(type, center, HalfStepKm * r, modes, <<>>, <<>>) :
     type \in {"block"}, center \in {2, 4, 6}, r \in 0..MaxRadius,
     modes \in {<<>>, << <<"road">> >>}}
  \cup
  {Event("storm", center, HalfStepKm * r, <<>>, <<1>>, <<2>>) :
     center \in {4, 6}, r \in 1..MaxRadius}

Request(ns, es, evs, ts, o, d, objective) ==
  [nodes |-> <<ns>>, edges |-> <<es>>, events |-> evs, tasks |-> ts,
   taskId |-> <<>>, originId |-> o, destinationId |-> d, objective |-> objective]

\* a single implicit task from A to C on every small network, no events
TopologyRequests ==
  {Request(Nodes3(tA, tB, tC), es, <<>>, <<>>, A, C, objective) :
     tA \in {"", "rail_hub"}, tB \in {"", "port", "air"}, tC \in RawTypes,
     es \in SubLists(TopologyEdges, MaxEdges),
     objective \in {"min_time", "min_cost", "min_co2", "balanced"}}

\* a single implicit task from A to C under one disruption event
EventRequests ==
  {Request(Nodes3("", tB, tC), es, <<ev>>, <<>>, A, C, objective) :
     tB \in {"", "port"}, tC \in {"", "port"},
     es \in SubLists(EventEdges, MaxEdges),
     ev \in Events1,
     objective \in {"min_time", "min_cost"}}

\* an edge from A to C that carries a time and a cost of its own
OverrideEdge == [Edge(A, C, "road", <<>>) EXCEPT !.timeHours = <<5>>, !.cost = <<3000>>]

\* a single implicit task from A to C on road networks whose nodes lie in
\* every combination of no region and two regions
RegionRequests ==
  {Request(<<Node(A, 0, "", rA), Node(B, 4, "", rB), Node(C, 8, "", rC)>>,
           es, <<>>, <<>>, A, C, objective) :
     rA \in {"", "CN", "EU"}, rB \in {"", "CN", "EU"}, rC \in {"", "CN", "EU"},
     es \in SubLists(<<Edge(A, B, "road", <<>>), Edge(B, C, "road", <<>>),
                       OverrideEdge>>, MaxEdges),
     objective \in {"min_time", "min_cost"}}

\* the id selectFacilityId derives for a port of origin A of task-1
TakenId ==
  makeEphemeralFacilityId(Chars("task-") \o <<"1">>, A, Chars("port"), Chars("origin"))

\* a single implicit task from A to C on networks that have a node of that id
TakenIdRequests ==
  {Request(<<Node(A, 0, "", "CN"), Node(B, 4, tB, "CN"), Node(C, 8, "", "EU"),
             Node(TakenId, 2, tS, "CN")>>,
           es, <<>>, <<>>, A, C, objective) :
     tB \in {"", "rail_hub"}, tS \in {"", "warehouse", "port"},
     es \in SubLists(<<Edge(A, B, "road", <<>>), Edge(B, C, "road", <<>>),
                       Edge(TakenId, C, "road", <<>>)>>, MaxEdges),
     objective \in {"min_cost", "min_co2"}}

\* a single implicit task from A to C on road networks with edges of an
\* explicit negative distance, one of them from a node to itself
CycleRequests ==
  {Request(Nodes3("", "", ""), es, <<>>, <<>>, A, C, objective) :
     es \in SubLists(<<Edge(A, A, "road", <<-400>>), Edge(A, C, "road", <<>>),
                       Edge(C, A, "road", <<-400>>)>>, MaxEdges),
     objective \in {"min_time", "min_cost", "min_co2", "balanced"}}

\* a single implicit task from A to C on networks without ports whose edge
\* list names the ports selectFacilityId will create for A and C
EphemeralEdgeRequests ==
  {Request(Nodes3("", tB, ""), es, <<>>, <<>>, A, C, objective) :
     tB \in {"", "rail_hub"},
     es \in SubLists(<<Edge(A, B, "road", <<>>),
                       Edge(TakenId,
                            makeEphemeralFacilityId(Chars("task-") \o <<"1">>, C,
                                                    Chars("port"), Chars("destination")),
                            "sea", <<>>),
                       Edge(B, C, "road", <<>>)>>, MaxEdges),
     objective \in {"min_cost", "min_co2"}}

TaskEntries ==
  {NullEntry,
   Task(<<>>, A, C, "min_cost"),
   Task(<<>>, B, C, "Balanced"),
   Task(<<>>, <<>>, C, "min_time"),
   Task(<<>>, Z, C, "green"),
   Task(Chars("task-") \o <<"1">>, C, A, ""),
   Task(<<>>, B, B, "fast"),
   Task(<<>>, A, ToStringKey, "min_time"),
   Task(<<>>, ToStringKey, ToStringKey, "min_time")}

BatchNodes ==
  <<Node(A, 0, "", "CN"), Node(B, 4, "PORT", "CN"), Node(C, 8, "port", "EU"),
    Node(A, 2, "air", "CN"), Node(<<>>, 2, "air", "CN"),
    [Node(Z, 2, "air", "CN") EXCEPT !.lng = <<>>]>>

BatchEdges ==
  <<Edge(A, B, "road", <<>>), Edge(B, C, "sea", <<>>), Edge(B, C, "2", <<200>>),
    Edge(C, B, "road", <<>>), Edge(B, Z, "road", <<>>), Edge(B, A, "rail", <<>>)>>

\* a batch of up to MaxTasks entries on one fixed network
BatchRequests ==
  {Request(BatchNodes, BatchEdges, evs, <<ts>>, A, B, "cheap") :
     ts \in SeqsUpTo(TaskEntries, MaxTasks),
     evs \in {<<>>, <<Event("block", 2, HalfStepKm, <<>>, <<>>, <<>>)>>}}

Idle ==
  /\ tasks = <<>>
  /\ ti = 1
  /\ ai = 1
  /\ nodes = <<>>
  /\ edges = <<>>
  /\ graph = NoGraph
  /\ attemptLog = <<>>
  /\ planned = <<>>
  /\ response = [status |-> 0, body |-> <<>>]

NoDijkstra == [phase |-> "none"]

NoLeg == [phase |-> "none"]

Init ==
  /\ request \in TopologyRequests \cup EventRequests \cup BatchRequests
                   \cup RegionRequests \cup TakenIdRequests \cup CycleRequests
                   \cup EphemeralEdgeRequests
  /\ currentConfig = defaultConfig
  /\ pc = "received"
  /\ Idle
  /\ dj = NoDijkstra
  /\ legCall = NoLeg
  /\ idArgs = <<>>

Next == PlanScenario \/ RejectTask \/ Attempt \/ Respond

Spec == Init /\ [][Next]_vars

-----------------------------------------------------------------------------
(* Runs of the shortest-path solver on its own *)

MaxWeight == 2

D == <<"D">>

NoRequest == Request(<<>>, <<>>, <<>>, <<>>, <<>>, <<>>, "")

\* the places an edge may take in a graph on the nodes A, x, C, D
EdgeSlots(x) == <<<<A, x>>, <<A, C>>, <<x, C>>, <<x, D>>, <<C, D>>, <<A, D>>>>

\* a graph as buildGraph returns it, reduced to what dijkstra reads: the keys
\* of nodeMap and, per node, the list of {to, weight}; weights[k] is <<>> when
\* slot k has no edge
SolverGraph(x, weights) ==
  LET slots == EdgeSlots(x)
      ids == <<A, x, C, D>>
      present == SelectSeq([k \in 1..Len(slots) |->
                              [from |-> slots[k][1], to |-> slots[k][2],
                               weight |-> weights[k]]],
                           LAMBDA e : IsNumber(e.weight))
  IN [keys |-> ids,
      nodeMap |-> [id \in Range(ids) |-> [id |-> id]],
      adj |-> [id \in {present[k].from : k \in 1..Len(present)} |->
                 LET mine == SelectSeq(present, LAMBDA e : e.from = id)
                 IN [k \in 1..Len(mine) |->
                       [to |-> mine[k].to, weight |-> mine[k].weight[1]]]]]

\* every graph on four nodes with non-negative weights; the second node is
\* named B or toString
SolverGraphs ==
  {SolverGraph(x, weights) :
     x \in {B, ToStringKey},
     weights \in [1..6 -> {<<>>} \cup {<<w>> : w \in 0..MaxWeight}]}

InitDijkstra ==
  /\ request = NoRequest
  /\ currentConfig = defaultConfig
  /\ pc = "solver"
  /\ Idle
  /\ dj \in {dijkstraInit(g, A, D) : g \in SolverGraphs}
  /\ legCall = NoLeg
  /\ idArgs = <<>>

\* one pass of the selection loop
DjSelect ==
  /\ dj.phase = "select"
  /\ dj' = dijkstraSelect(dj)
  /\ UNCHANGED <<request, currentConfig, pc, tasks, ti, ai, nodes, edges, graph,
                 attemptLog, planned, response, idArgs, legCall>>

\* one pass of the back-pointer walk
DjWalk ==
  /\ dj.phase = "walk"
  /\ dj' = dijkstraStep(dj)
  /\ UNCHANGED <<request, currentConfig, pc, tasks, ti, ai, nodes, edges, graph,
                 attemptLog, planned, response, idArgs, legCall>>

NextDijkstra == DjSelect \/ DjWalk

SpecDijkstra == InitDijkstra /\ [][NextDijkstra]_vars

-----------------------------------------------------------------------------
(* Ephemeral facility ids on their own *)

MaxIdLen == 1

IdChars == {"a", "_", "."}

IdStrings == SeqsUpTo(IdChars, MaxIdLen)

\* the arguments of two calls of makeEphemeralFacilityId
IdTuples ==
  {[taskId |-> t, endpointId |-> e, facilityType |-> "port", role |-> r] :
     t \in IdStrings, e \in IdStrings, r \in {"origin", "destination"}}

IdTaskEntries ==
  {Task(t, o, C, "min_cost") :
     t \in {<<>>, Chars("task-") \o <<"1">>, Chars("task-") \o <<"2">>},
     o \in {A, B}}

\* batches of two tasks
IdBatchRequests ==
  {Request(<<>>, <<>>, <<>>, <<<<t1, t2>>>>, <<>>, <<>>, "") :
     t1 \in IdTaskEntries, t2 \in IdTaskEntries}

InitIds ==
  /\ currentConfig = defaultConfig
  /\ pc = "ids"
  /\ Idle
  /\ dj = NoDijkstra
  /\ legCall = NoLeg
  /\ \/ /\ request = NoRequest
        /\ idArgs \in {[kind |-> "calls", calls |-> <<x, y>>, ids |-> <<>>] :
                         x \in IdTuples, y \in IdTuples}
     \/ /\ request \in IdBatchRequests
        /\ idArgs = [kind |-> "batch", calls |-> <<>>, ids |-> <<>>]

\* two calls of makeEphemeralFacilityId
MakeIds ==
  /\ idArgs.kind = "calls"
  /\ idArgs.ids = <<>>
  /\ idArgs' = [idArgs EXCEPT !.ids =
                  [k \in 1..Len(idArgs.calls) |->
                     LET c == idArgs.calls[k]
                     IN makeEphemeralFacilityId(c.taskId, c.endpointId,
                                                Chars(c.facilityType), Chars(c.role))]]
  /\ UNCHANGED <<request, currentConfig, pc, tasks, ti, ai, nodes, edges, graph,
                 attemptLog, planned, response, dj, legCall>>

\* the batch is normalised and every task derives the id of the port that
\* selectFacilityId creates for its origin (line 933)
BatchIds ==
  /\ idArgs.kind = "batch"
  /\ idArgs.ids = <<>>
  /\ LET ts == normalizeBatchRequest(request)
     IN /\ tasks' = ts
        /\ idArgs' = [idArgs EXCEPT !.ids =
                        [k \in 1..Len(ts) |->
                           makeEphemeralFacilityId(ts[k].taskId, ts[k].originId,
                                                   Chars("port"), Chars("origin"))]]
  /\ UNCHANGED <<request, currentConfig, pc, ti, ai, nodes, edges, graph,
                 attemptLog, planned, response, dj, legCall>>

NextIds == MakeIds \/ BatchIds

SpecIds == InitIds /\ [][NextIds]_vars

-----------------------------------------------------------------------------
(* Properties of the shortest-path solver *)

\* the edges of a graph, as <<from, adjacency entry>>
GraphEdges(g) ==
  UNION {{<<u, g.adj[u][k]>> : k \in 1..Len(g.adj[u])} : u \in DOMAIN g.adj}

\* the nodes a non-empty chain of edges leads to from a set of nodes
RECURSIVE ReachableIn(_, _, _)
ReachableIn(g, from, n) ==
  IF n = 0 THEN {}
  ELSE LET next == {e[2].to : e \in {x \in GraphEdges(g) : x[1] \in from}}
       IN next \cup ReachableIn(g, next, n - 1)

HasPath(g, originId, destinationId) ==
  destinationId \in ReachableIn(g, {originId}, Cardinality(DOMAIN g.nodeMap))

\* least summed weight of a chain of at most n edges from originId to each node
\* (Bellman-Ford), -1 for none
RECURSIVE LeastWeight(_, _, _)
LeastWeight(g, originId, n) ==
  IF n = 0 THEN [id \in DOMAIN g.nodeMap |-> IF id = originId THEN 0 ELSE -1]
  ELSE LET before == LeastWeight(g, originId, n - 1)
       IN [id \in DOMAIN g.nodeMap |->
             LET via == {before[e[1]] + e[2].weight :
                           e \in {x \in GraphEdges(g) :
                                    x[2].to = id /\ before[x[1]] >= 0}}
                 all == via \cup (IF before[id] >= 0 THEN {before[id]} ELSE {})
             IN IF all = {} THEN -1
                ELSE CHOOSE w \in all : \A o \in all : w <= o]

RECURSIVE PathWeight(_, _)
PathWeight(path, k) ==
  IF k > Len(path) THEN 0 ELSE path[k].edge.weight + PathWeight(path, k + 1)

\* the steps are edges of the graph, laid end to end from origin to destination
IsPathOf(g, path, originId, destinationId) ==
  /\ Len(path) > 0
  /\ \A k \in 1..Len(path) :
       /\ DOMAIN path[k] = {"from", "edge"}
       /\ <<path[k].from, path[k].edge>> \in GraphEdges(g)
  /\ path[1].from = originId
  /\ path[Len(path)].edge.to = destinationId
  /\ \A k \in 1..(Len(path) - 1) : path[k].edge.to = path[k + 1].from

-----------------------------------------------------------------------------
(* Properties of ephemeral ids *)

\* C9: distinct (taskId, endpointId, facilityType, role) tuples get distinct
\* ephemeral ids, and no two tasks of a batch get the same ephemeral id
C9_IdsCollisionFree ==
  idArgs # <<>> /\ idArgs.ids # <<>> =>
    /\ idArgs.kind = "calls" /\ idArgs.calls[1] # idArgs.calls[2]
         => idArgs.ids[1] # idArgs.ids[2]
    /\ idArgs.kind = "batch"
         => \A i, j \in 1..Len(idArgs.ids) : i # j => idArgs.ids[i] # idArgs.ids[j]

-----------------------------------------------------------------------------
(* Properties of the batch planner *)

Solved(i) == planned[i].state = "fulfilled" /\ planned[i].value.solution # <<>>

SolutionOf(i) == planned[i].value.solution[1]

LegsOf(i) == SolutionOf(i).legs

\* the supplied network after normalisation
NormalizedInput ==
  normalizeNetwork(cloneArray(request.nodes), cloneArray(request.edges))

\* the nodes a solution may name: those of the normalised input network and
\* the ephemeral ones the solution lists
SolveNodes(i) == Range(NormalizedInput.nodes) \cup Range(SolutionOf(i).ephemeralNodes)

\* the graph held in the state is the one the latest result was found in
LatestSolved ==
  /\ Len(planned) > 0
  /\ Solved(Len(planned))
  /\ ti = Len(planned) + 1

\* a "block" event of positive radius that applies to the mode and covers the
\* midpoint of the two nodes
BlockCovers(ev, mode, fromNode, toNode) ==
  /\ ev.type = "block"
  /\ IsNumber(ev.radiusKm) /\ ev.radiusKm[1] > 0
  /\ ev.affectedModes = <<>> \/ mode \in Range(ev.affectedModes[1])
  /\ IsNumber(ev.center)
  /\ HalfStepKm * Abs(2 * ev.center[1] - (fromNode.lng + toNode.lng))
       <= 2 * ev.radiusKm[1]

IsBlockedLeg(mode, fromNode, toNode) ==
  \E k \in 1..Len(request.events) :
    BlockCovers(request.events[k], mode, fromNode, toNode)

\* C1: no edge of the search graph and no leg of a returned solution is
\* covered by a "block" event that applies to its mode
C1_NoBlockedLeg ==
  /\ \A u \in DOMAIN graph.adj : \A k \in 1..Len(graph.adj[u]) :
       ~IsBlockedLeg(graph.adj[u][k].mode, graph.nodeMap[u],
                     graph.nodeMap[graph.adj[u][k].to])
  /\ \A i \in 1..Len(planned) : Solved(i) =>
       \A k \in 1..Len(LegsOf(i)) : \A f, t \in SolveNodes(i) :
         f.id = LegsOf(i)[k].fromId /\ t.id = LegsOf(i)[k].toId
           => ~IsBlockedLeg(LegsOf(i)[k].mode, f, t)

\* a solution was returned although an edge of the attempt was blocked
C1_Witness ==
  /\ LatestSolved
  /\ \E k \in 1..Len(edges) :
       /\ edges[k].from \in DOMAIN graph.nodeMap
       /\ edges[k].to \in DOMAIN graph.nodeMap
       /\ IsBlockedLeg(normalizeMode(edges[k].mode), graph.nodeMap[edges[k].from],
                       graph.nodeMap[edges[k].to])

RequiredType(mode) ==
  CASE mode = "air" -> "airport" [] mode = "sea" -> "port" [] mode = "rail" -> "rail"

\* C3: every non-road leg of a returned solution joins two nodes of the
\* facility type of its mode: airports for air, ports for sea, rail for rail
C3_LegsJoinFacilities ==
  \A i \in 1..Len(planned) : Solved(i) =>
    \A k \in 1..Len(LegsOf(i)) :
      LET leg == LegsOf(i)[k]
      IN leg.mode # "road" =>
           /\ leg.mode \in {"air", "sea", "rail"}
           /\ \A n \in SolveNodes(i) :
                n.id \in {leg.fromId, leg.toId} => n.type = RequiredType(leg.mode)

\* a returned solution has a leg that is not a road leg
C3_Witness ==
  \E i \in 1..Len(planned) :
    Solved(i) /\ \E k \in 1..Len(LegsOf(i)) : LegsOf(i)[k].mode # "road"

\* C10: every returned solution is a chain of legs from the task's origin to
\* its destination, each leg starting where the one before ends, and every
\* leg end is a node of the normalised input network or an ephemeral node the
\* solution lists
C10_ContiguousChain ==
  \A i \in 1..Len(planned) : Solved(i) =>
    LET legs == LegsOf(i)
    IN /\ Len(legs) > 0
       /\ legs[1].fromId = tasks[i].originId
       /\ legs[Len(legs)].toId = tasks[i].destinationId
       /\ \A k \in 1..(Len(legs) - 1) : legs[k].toId = legs[k + 1].fromId
       /\ \A k \in 1..Len(legs) :
            {legs[k].fromId, legs[k].toId} \subseteq {n.id : n \in SolveNodes(i)}

\* a returned solution has two legs or more
C10_Witness ==
  \E i \in 1..Len(planned) : Solved(i) /\ Len(LegsOf(i)) >= 2

\* the ids of the normalised input network
InputIds == {n.id : n \in Range(NormalizedInput.nodes)}

\* the search graph of one task under one set of allowed modes: the input
\* network with its access edges, filtered and without blocked edges
AttemptGraph(t, allowedModes) ==
  LET net == NormalizedInput
      nodeMap == buildNodeMap(net.nodes)
      ensured == ensureFacilitiesForModes(t.taskId, net.nodes, net.edges,
                                          nodeMap[t.originId],
                                          nodeMap[t.destinationId], allowedModes)
  IN buildGraph(ensured.nodes,
                filterEdgesByConstraintsAndModes(ensured.nodes, ensured.edges,
                                                 allowedModes),
                currentConfig, normalizeObjectiveToGraph(t.objectiveRaw),
                request.events)

\* the constrained graph of the mode set has a path of one leg or more from
\* the task's origin to its distinct destination
PathExists(t, allowedModes) ==
  /\ t.originId \in InputIds
  /\ t.destinationId \in InputIds
  /\ t.originId # t.destinationId
  /\ HasPath(AttemptGraph(t, allowedModes), t.originId, t.destinationId)

HasLeg(i, mode) == \E k \in 1..Len(LegsOf(i)) : LegsOf(i)[k].mode = mode

\* result i has just been recorded; a result does not change afterwards
JustPlanned(i) == pc = "planning" /\ i = Len(planned) /\ ti = i + 1 /\ ai = 1

\* C6: the mode sets of a task are tried in their listed order; the result
\* is a path of the first set whose constrained graph has a path from origin
\* to destination and no later set is tried; for min_cost a rail leg shows
\* that {road,sea} had no path and an air leg that {road,sea,rail} had none;
\* the solution is null only when every set fails
C6_FirstFeasibleSet ==
  \A i \in 1..Len(planned) : JustPlanned(i) /\ planned[i].state = "fulfilled" =>
    LET t == tasks[i]
        sets == decideModeAttempts(planned[i].value.objective)
        log == attemptLog[i]
        feasible == {k \in 1..Len(sets) : PathExists(t, sets[k])}
    IN /\ Len(log) <= Len(sets)
       /\ \A k \in 1..Len(log) : log[k].allowedModes = sets[k]
       /\ ~Solved(i) <=> feasible = {}
       /\ Solved(i) =>
            LET first == CHOOSE k \in feasible : \A j \in feasible : k <= j
                g == AttemptGraph(t, sets[first])
            IN /\ Len(log) = first
               /\ \A k \in 1..Len(LegsOf(i)) :
                    LET leg == LegsOf(i)[k]
                    IN /\ leg.mode \in Range(sets[first])
                       /\ \E e \in GraphEdges(g) :
                            /\ e[1] = leg.fromId
                            /\ e[2].to = leg.toId
                            /\ e[2].mode = leg.mode
               /\ planned[i].value.objective = "min_cost" /\ HasLeg(i, "rail")
                    => ~PathExists(t, <<"road", "sea">>)
               /\ planned[i].value.objective = "min_cost" /\ HasLeg(i, "air")
                    => ~PathExists(t, <<"road", "sea", "rail">>)

\* a min_cost task got a rail leg at its second attempt
C6_Witness ==
  \E i \in 1..Len(planned) :
    /\ Solved(i)
    /\ planned[i].value.objective = "min_cost"
    /\ HasLeg(i, "rail")
    /\ Len(attemptLog[i]) = 2
    /\ attemptLog[i][1].kind = "nopath"

\* C4: a request that carries a tasks list gets one result per entry of the
\* list, in the order of the list, whatever the entries are
C4_OneResultPerEntry ==
  pc = "done" /\ IsNumber(request.tasks) /\ response.status = 200 =>
    LET entries == request.tasks[1]
    IN /\ Len(response.body) = Len(entries)
       /\ \A i \in 1..Len(entries) : ~entries[i].falsy =>
            /\ entries[i].taskId # <<>> => response.body[i].taskId = entries[i].taskId
            /\ response.body[i].objective =
                 normalizeObjectiveToOutput(entries[i].objective)

\* the task names no origin or destination, names one the network does not
\* have, or has no path under any of its mode sets
Unplannable(t) ==
  \/ t.originId = <<>> \/ t.destinationId = <<>>
  \/ t.originId \notin InputIds \/ t.destinationId \notin InputIds
  \/ \A k \in 1..Len(decideModeAttempts(normalizeObjectiveToOutput(t.objectiveRaw))) :
       ~PathExists(t, decideModeAttempts(normalizeObjectiveToOutput(t.objectiveRaw))[k])

\* C5: a task that cannot be planned gets a null solution and the batch call
\* still succeeds; every task gets the solution it gets when planned alone
C5_FailureIsolated ==
  pc = "done" =>
    /\ response.status = 200
    /\ Len(response.body) = Len(tasks)
    /\ \A i \in 1..Len(tasks) :
         /\ Unplannable(tasks[i]) => response.body[i].solution = <<>>
         /\ LET alone == planOneTask(tasks[i], request.nodes, request.edges,
                                     request.events)
            IN alone.state = "fulfilled" =>
                 response.body[i].solution = alone.value.solution

\* the candidate mode sets the policy gives an objective value
PolicySets(objectiveRaw) ==
  LET v == toLowerCase(objectiveRaw)
  IN IF v \in {"", "min_time", "fast"} THEN <<{"road", "air"}>>
     ELSE IF v \in {"min_cost", "cheap"}
       THEN <<{"road", "sea"}, {"road", "sea", "rail"}, {"road", "sea", "rail", "air"}>>
     ELSE IF v \in {"min_co2", "green"} THEN <<{"road", "rail", "sea"}>>
     ELSE <<{"road", "rail", "sea", "air"}>>

\* C7: the mode sets a task is planned with are those of the policy, in
\* order: road+air for min_time, the three widening sets for min_cost,
\* road+rail+sea for min_co2 and all four modes for every other objective,
\* balanced included
C7_ModePolicy ==
  \A i \in 1..Len(attemptLog) :
    /\ Len(attemptLog[i]) <= Len(PolicySets(tasks[i].objectiveRaw))
    /\ \A k \in 1..Len(attemptLog[i]) :
         Range(attemptLog[i][k].allowedModes) = PolicySets(tasks[i].objectiveRaw)[k]

\* the nodes joined to a set of nodes by edges taken in either direction
RECURSIVE Component(_, _, _)
Component(es, from, n) ==
  IF n = 0 THEN from
  ELSE Component(es,
                 from \cup {e.to : e \in {x \in es : x.from \in from}}
                      \cup {e.from : e \in {x \in es : x.to \in from}},
                 n - 1)

\* one edge of the supplied network is all that joins the part of the
\* task's origin to the part of its destination, and a "block" event covers
\* that edge
BlockedBridge(t) ==
  LET net == NormalizedInput
      nodeMap == buildNodeMap(net.nodes)
  IN /\ t.originId \in InputIds
     /\ t.destinationId \in InputIds
     /\ \E k \in 1..Len(net.edges) :
          LET bridge == net.edges[k]
              others == {net.edges[j] : j \in (1..Len(net.edges)) \ {k}}
              here == Component(others, {t.originId}, Len(net.nodes))
              there == Component(others, {t.destinationId}, Len(net.nodes))
          IN /\ here \cap there = {}
             /\ \/ bridge.from \in here /\ bridge.to \in there
                \/ bridge.to \in here /\ bridge.from \in there
             /\ IsBlockedLeg(bridge.mode, nodeMap[bridge.from], nodeMap[bridge.to])

\* C8: when a "block" event covers the only edge that joins the part of the
\* origin to the part of the destination, the task's solution is null
C8_BlockedBridgeGivesNull ==
  \A i \in 1..Len(planned) :
    planned[i].state = "fulfilled" /\ BlockedBridge(tasks[i]) => ~Solved(i)

-----------------------------------------------------------------------------
(* Frame of the planner *)

\* the tasks that have made an attempt, and the latest of them
AttemptedTasks == {i \in 1..Len(attemptLog) : Len(attemptLog[i]) > 0}

LatestAttempted == CHOOSE i \in AttemptedTasks : \A j \in AttemptedTasks : j <= i

LatestModes == attemptLog[LatestAttempted][Len(attemptLog[LatestAttempted])].allowedModes

\* the id an endpoint of a task has in the working network, <<>> when the
\* network has no node of that id
EndpointId(id) == IF id \in InputIds THEN id ELSE <<>>

\* the working lists of the latest attempt are the normalised input network
\* followed by what this attempt alone may append: ephemeral facilities named
\* after its own task and endpoints, of a type its own mode set requires, and
\* road edges between an endpoint of the task and a facility of such a type
\* or of such a name
WorkingNetworkIsFresh ==
  AttemptedTasks # {} =>
    LET t == tasks[LatestAttempted]
        net == NormalizedInput
        types == Range(requiredFacilityTypes(LatestModes))
        ends == {EndpointId(t.originId), EndpointId(t.destinationId)}
        ownIds == {makeEphemeralFacilityId(t.taskId, EndpointId(e[1]), Chars(ft),
                                           Chars(e[2])) :
                     e \in {<<t.originId, "origin">>, <<t.destinationId, "destination">>},
                     ft \in types}
    IN /\ Len(nodes) >= Len(net.nodes)
       /\ SubSeq(nodes, 1, Len(net.nodes)) = net.nodes
       /\ \A k \in (Len(net.nodes) + 1)..Len(nodes) :
            /\ nodes[k].ephemeral
            /\ nodes[k].id \in ownIds
            /\ \A j \in 1..(k - 1) : nodes[j].id # nodes[k].id
       /\ Len(edges) >= Len(net.edges)
       /\ SubSeq(edges, 1, Len(net.edges)) = net.edges
       /\ \A k \in (Len(net.edges) + 1)..Len(edges) :
            /\ edges[k].mode = "road"
            /\ \E j \in 1..Len(nodes) :
                 /\ nodes[j].type \in types \/ nodes[j].id \in ownIds
                 /\ \/ edges[k].from \in ends /\ edges[k].to = nodes[j].id
                    \/ edges[k].to \in ends /\ edges[k].from = nodes[j].id
            /\ \A j \in 1..(k - 1) : edgeKey(edges[j]) # edgeKey(edges[k])

\* C11: no step of planning changes the node and edge lists the caller
\* supplied, and after every mode attempt the working network is the
\* normalised base network plus the attempt's own additions: nothing an
\* earlier attempt of the same or of another task appended is in it
C11_FreshCopyPerAttempt ==
  /\ [][request'.nodes = request.nodes /\ request'.edges = request.edges]_vars
  /\ []WorkingNetworkIsFresh

\* a task made an attempt after an earlier task's attempt had appended an
\* ephemeral facility to its working network
C11_Witness ==
  /\ AttemptedTasks # {}
  /\ LatestAttempted >= 2
  /\ \E i \in AttemptedTasks :
       /\ i < LatestAttempted
       /\ attemptLog[i][1].kind # "unknown"
       /\ \E ft \in Range(requiredFacilityTypes(attemptLog[i][1].allowedModes)) :
            buildFacilityIndex(NormalizedInput.nodes)[ft] = <<>>
  /\ \E k \in 1..Len(nodes) : nodes[k].ephemeral

-----------------------------------------------------------------------------
(* The config handlers next to a planning call *)

\* a JSON object of a patch, and a value that is not an object
Obj(fields) == [obj |-> fields]

Val(v) == [val |-> v]

\* mergeConfig(target, patch): the target after the merge
RECURSIVE mergeConfig(_, _)
mergeConfig(target, patch) ==
  [key \in DOMAIN target \cup DOMAIN patch |->
     IF key \notin DOMAIN patch THEN target[key]
     ELSE IF "obj" \in DOMAIN patch[key]
       THEN mergeConfig(IF key \in DOMAIN target THEN target[key] ELSE <<>>,
                        patch[key].obj)
     ELSE patch[key].val]

\* bodies of POST /api/config/update: road cost 0.5 per km; no cost weight
Patches ==
  {[transport |-> Obj([road |-> Obj([costPerKm |-> Val(1)])])],
   [weights |-> Obj([balancedCostWeight |-> Val(<<0>>)])]}

\* the configs config_history.json may hold: the file outlives the process,
\* so every config that was ever live may be an entry
ConfigsOnFile ==
  {defaultConfig} \cup {mergeConfig(defaultConfig, p) : p \in Patches}
    \cup {mergeConfig(mergeConfig(defaultConfig, p), q) : p \in Patches, q \in Patches}

\* a handler that would run although the planning call has not returned
eventLoopAlwaysFree == TRUE

\* another handler runs only when the event loop is free: planOneTask has no
\* await, so tasks.map at line 643 runs every task to its end within the one
\* call of planScenario, and a call that never returns never frees the loop
eventLoopFree == pc \in {"received", "done"}

\* POST /api/config/update
ConfigUpdate ==
  /\ eventLoopFree
  /\ \E patch \in Patches : currentConfig' = mergeConfig(currentConfig, patch)
  /\ currentConfig' # currentConfig
  /\ UNCHANGED <<request, pc, tasks, ti, ai, nodes, edges, graph, attemptLog,
                 planned, response, dj, idArgs, legCall>>

\* POST /api/config/reset
ConfigReset ==
  /\ eventLoopFree
  /\ currentConfig # defaultConfig
  /\ currentConfig' = defaultConfig
  /\ UNCHANGED <<request, pc, tasks, ti, ai, nodes, edges, graph, attemptLog,
                 planned, response, dj, idArgs, legCall>>

\* POST /api/config/rollback to an entry of the history file
ConfigRollback ==
  /\ eventLoopFree
  /\ \E target \in ConfigsOnFile : currentConfig' = target
  /\ currentConfig' # currentConfig
  /\ UNCHANGED <<request, pc, tasks, ti, ai, nodes, edges, graph, attemptLog,
                 planned, response, dj, idArgs, legCall>>

ConfigTaskEntries ==
  {Task(<<>>, A, C, "min_cost"),
   Task(<<>>, A, C, "balanced"),
   Task(<<>>, B, C, "min_co2"),
   Task(<<>>, <<>>, C, "min_time")}

\* batches of up to MaxTasks tasks on one network with a sea and a rail link
ConfigRequests ==
  {Request(Nodes3("rail_hub", "port", "port"),
           <<Edge(A, B, "road", <<>>), Edge(B, C, "sea", <<>>),
             Edge(A, C, "road", <<>>), Edge(A, B, "rail", <<>>)>>,
           <<>>, <<ts>>, <<>>, <<>>, "") :
     ts \in SeqsUpTo(ConfigTaskEntries, MaxTasks) \ {<<>>}}

InitConfig ==
  /\ request \in ConfigRequests
  /\ currentConfig = defaultConfig
  /\ pc = "received"
  /\ Idle
  /\ dj = NoDijkstra
  /\ legCall = NoLeg
  /\ idArgs = <<>>

NextConfig ==
  \/ PlanScenario \/ RejectTask \/ Attempt \/ Respond
  \/ ConfigUpdate \/ ConfigReset \/ ConfigRollback

SpecConfig == InitConfig /\ [][NextConfig]_vars

\* the configs the attempts of the batch were weighted with
ConfigsUsed ==
  UNION {{attemptLog[i][k].config : k \in 1..Len(attemptLog[i])} :
           i \in 1..Len(attemptLog)}

\* C12: from the start of the first task to the end of the last no step
\* changes the live config, neither a config handler nor planning itself, and
\* every mode attempt of every task of the batch is weighted with one config
C12_OneConfigPerBatch ==
  /\ [][(pc = "planning" \/ pc' = "planning") => currentConfig' = currentConfig]_vars
  /\ [](Cardinality(ConfigsUsed) <= 1)

\* a batch made attempts for two tasks under a config that a handler had
\* changed before the batch started
C12_Witness ==
  /\ pc = "done"
  /\ Cardinality(AttemptedTasks) >= 2
  /\ defaultConfig \notin ConfigsUsed

-----------------------------------------------------------------------------
(* Properties of the leg cost model *)

\* the edge of the working list that an adjacency entry or a leg was made of
EdgeOf(fromId, toId, mode) ==
  edges[CHOOSE k \in 1..Len(edges) :
          edges[k].from = fromId /\ edges[k].to = toId
            /\ normalizeMode(edges[k].mode) = mode]

\* time and cost of a leg before any surcharge and any disruption
PlainTime(e, distance) ==
  IF IsNumber(e.timeHours) /\ e.timeHours[1] > 0 THEN e.timeHours[1] * HourTicks
  ELSE (distance * HourTicks) \div Max(currentConfig.transport[normalizeMode(e.mode)].speedKmH, 1)

PlainCost(e, distance) ==
  IF IsNumber(e.cost) /\ e.cost[1] > 0 THEN e.cost[1]
  ELSE distance * currentConfig.transport[normalizeMode(e.mode)].costPerKm

\* both ends carry a region and the regions differ
RegionCrossing(fromNode, toNode) ==
  /\ fromNode.region # ""
  /\ toNode.region # ""
  /\ fromNode.region # toNode.region

\* the legs of the latest solution that cross regions
CrossingLegs ==
  {k \in 1..Len(LegsOf(Len(planned))) :
     RegionCrossing(graph.nodeMap[LegsOf(Len(planned))[k].fromId],
                    graph.nodeMap[LegsOf(Len(planned))[k].toId])}

RECURSIVE SurchargeTotal(_, _)
SurchargeTotal(legs, k) ==
  IF k > Len(legs) THEN 0
  ELSE legs[k].cost
         - PlainCost(EdgeOf(legs[k].fromId, legs[k].toId, legs[k].mode),
                     legs[k].distanceKm)
         + SurchargeTotal(legs, k + 1)

\* C13: without disruption events, every edge of the search graph costs its
\* plain cost plus crossBorderCost and takes its plain time plus
\* crossBorderDelayHours when both ends carry a region and the regions
\* differ, and exactly its plain cost and time otherwise; the surcharges of a
\* returned path sum to crossBorderCost times the number of its crossing legs
C13_SurchargePerLeg ==
  request.events = <<>> =>
    /\ \A u \in DOMAIN graph.adj : \A k \in 1..Len(graph.adj[u]) :
         LET entry == graph.adj[u][k]
             e == EdgeOf(u, entry.to, entry.mode)
             crossing == RegionCrossing(graph.nodeMap[u], graph.nodeMap[entry.to])
         IN /\ entry.cost = PlainCost(e, entry.distanceKm)
                 + (IF crossing THEN currentConfig.tariff.crossBorderCost ELSE 0)
            /\ entry.timeHours = PlainTime(e, entry.distanceKm)
                 + (IF crossing THEN currentConfig.tariff.crossBorderDelayHours ELSE 0)
    /\ LatestSolved =>
         SurchargeTotal(LegsOf(Len(planned)), 1)
           = Cardinality(CrossingLegs) * currentConfig.tariff.crossBorderCost

\* a returned path has two legs that cross regions
C13_Witness ==
  /\ request.events = <<>>
  /\ LatestSolved
  /\ Cardinality(CrossingLegs) = 2

\* a returned path has a leg between a node of no region and a node of a region
C13_WitnessNoRegion ==
  /\ request.events = <<>>
  /\ LatestSolved
  /\ \E k \in 1..Len(LegsOf(Len(planned))) :
       LET leg == LegsOf(Len(planned))[k]
       IN graph.nodeMap[leg.fromId].region = "" /\ graph.nodeMap[leg.toId].region # ""

-----------------------------------------------------------------------------
(* Calls of computeLegStats on their own *)

MaxEvents == 2

\* events around the midpoint (4) of a leg from A to C: a storm, a strike on
\* road legs, a closure, one of no radius, one too far away, one with a cost
\* factor of zero and one with a negative delay and a negative cost factor
LegEvents ==
  {Event("storm", 4, HalfStepKm, <<>>, <<1>>, <<2>>),
   Event("strike", 4, HalfStepKm, << <<"road">> >>, <<2>>, <<3>>),
   Event("block", 4, HalfStepKm, <<>>, <<>>, <<>>),
   Event("storm", 4, 0, <<>>, <<1>>, <<2>>),
   Event("storm", 7, HalfStepKm, <<>>, <<1>>, <<2>>),
   Event("fee", 4, HalfStepKm, <<>>, <<1>>, <<0>>),
   Event("refund", 4, HalfStepKm, <<>>, <<-1>>, <<-2>>)}

LegEdges ==
  {Edge(A, C, "road", <<>>), Edge(A, C, "2", <<>>), Edge(A, C, "road", <<300>>),
   OverrideEdge}

LegCalls ==
  {[phase |-> "args", edge |-> e, fromNode |-> [id |-> A, lng |-> 0, region |-> "CN"],
    toNode |-> [id |-> C, lng |-> 8, region |-> r], events |-> evs] :
     e \in LegEdges, r \in {"CN", "EU"}, evs \in SeqsUpTo(LegEvents, MaxEvents)}

InitLeg ==
  /\ request = NoRequest
  /\ currentConfig = defaultConfig
  /\ pc = "leg"
  /\ Idle
  /\ dj = NoDijkstra
  /\ idArgs = <<>>
  /\ legCall \in LegCalls

\* computeLegStats(edge, fromNode, toNode, currentConfig, events) returns
LegStats ==
  /\ legCall.phase = "args"
  /\ legCall' = [phase |-> "done", edge |-> legCall.edge,
                 fromNode |-> legCall.fromNode, toNode |-> legCall.toNode,
                 events |-> legCall.events,
                 stats |-> computeLegStats(legCall.edge, legCall.fromNode,
                                           legCall.toNode, currentConfig,
                                           legCall.events)]
  /\ UNCHANGED <<request, currentConfig, pc, tasks, ti, ai, nodes, edges, graph,
                 attemptLog, planned, response, dj, idArgs>>

NextLeg == LegStats

SpecLeg == InitLeg /\ [][NextLeg]_vars

\* the event has a positive radius, does not exclude the mode of the leg, and
\* the midpoint of the leg is within its radius
Applicable(ev) ==
  /\ IsNumber(ev.radiusKm) /\ ev.radiusKm[1] > 0
  /\ ev.affectedModes = <<>>
       \/ normalizeMode(legCall.edge.mode) \in Range(ev.affectedModes[1])
  /\ HalfStepKm * Abs(2 * ev.center[1] - (legCall.fromNode.lng + legCall.toNode.lng))
       <= 2 * ev.radiusKm[1]

\* an applicable event whose cost factor is not zero or less
ApplicableAtPositiveFactor(ev) ==
  Applicable(ev) /\ ~(IsNumber(ev.costFactor) /\ ev.costFactor[1] <= 0)

\* the sum of the positive delays of the events that count; counts[k] tells
\* whether event k does
RECURSIVE DelaySum(_, _, _)
DelaySum(events, k, counts) ==
  IF k > Len(events) THEN 0
  ELSE (IF counts[k] /\ IsNumber(events[k].delayHours)
             /\ events[k].delayHours[1] > 0
          THEN events[k].delayHours[1] ELSE 0)
       + DelaySum(events, k + 1, counts)

\* the product of the positive cost factors of the events that count
RECURSIVE FactorProduct(_, _, _)
FactorProduct(events, k, counts) ==
  IF k > Len(events) THEN 1
  ELSE (IF counts[k] /\ IsNumber(events[k].costFactor)
             /\ events[k].costFactor[1] > 0
          THEN events[k].costFactor[1] ELSE 1)
       * FactorProduct(events, k + 1, counts)

\* time and cost of the leg before the overlay
BeforeOverlay ==
  computeLegStats(legCall.edge, legCall.fromNode, legCall.toNode, currentConfig, <<>>)

\* time and cost are those of the overlay of the events that count
OverlayOf(Counts(_)) ==
  LET counts == [k \in 1..Len(legCall.events) |-> Counts(legCall.events[k])]
  IN /\ legCall.stats.timeHours
          = BeforeOverlay.timeHours + HourTicks * DelaySum(legCall.events, 1, counts)
     /\ legCall.stats.cost
          = BeforeOverlay.cost * FactorProduct(legCall.events, 1, counts)

\* the call with the last event left out
WithoutLast ==
  computeLegStats(legCall.edge, legCall.fromNode, legCall.toNode, currentConfig,
                  SubSeq(legCall.events, 1, Len(legCall.events) - 1))

\* C14 as stated: time is the time before the overlay plus the positive
\* delays of the applicable events, cost is the cost before the overlay times
\* their positive cost factors, and an event with radiusKm <= 0, with an
\* affectedModes list without the mode, with the midpoint outside its radius
\* or with costFactor <= 0 changes neither time nor cost
C14_OverlayAsStated ==
  legCall.phase = "done" => OverlayOf(ApplicableAtPositiveFactor)

\* C14: time is the time before the overlay plus the positive delays of the
\* applicable events and cost is the cost before the overlay times their
\* positive cost factors, each event adding to what the events before it in
\* the list left; an event with radiusKm <= 0, with an affectedModes list
\* without the mode or with the midpoint outside its radius changes neither,
\* and an applicable event with costFactor <= 0 leaves the cost as it is
\* while its positive delay is still added
C14_OverlayCompounds ==
  legCall.phase = "done" =>
    /\ OverlayOf(Applicable)
    /\ Len(legCall.events) > 0 =>
         LET last == legCall.events[Len(legCall.events)]
             counts == Applicable(last)
         IN /\ legCall.stats.timeHours
                 = WithoutLast.timeHours
                     + (IF counts /\ IsNumber(last.delayHours) /\ last.delayHours[1] > 0
                          THEN HourTicks * last.delayHours[1] ELSE 0)
            /\ legCall.stats.cost
                 = WithoutLast.cost
                     * (IF counts /\ IsNumber(last.costFactor) /\ last.costFactor[1] > 0
                          THEN last.costFactor[1] ELSE 1)

\* two applicable events have raised both the time and the cost of a leg
C14_Witness ==
  /\ legCall.phase = "done"
  /\ Cardinality({k \in 1..Len(legCall.events) : Applicable(legCall.events[k])}) = 2
  /\ legCall.stats.cost > 2 * BeforeOverlay.cost
  /\ legCall.stats.timeHours > BeforeOverlay.timeHours + HourTicks

-----------------------------------------------------------------------------
(* Properties of facility ensurance *)

\* the latest attempt went through ensureFacilitiesForModes with two nodes of
\* the network as its endpoints
LatestEnsured ==
  /\ AttemptedTasks # {}
  /\ attemptLog[LatestAttempted][Len(attemptLog[LatestAttempted])].kind # "unknown"
  /\ tasks[LatestAttempted].originId \in InputIds
  /\ tasks[LatestAttempted].destinationId \in InputIds

InputNode(id) == buildNodeMap(NormalizedInput.nodes)[id]

\* the working edge list has exactly one road edge from one id to the other
OneRoadEdge(fromId, toId) ==
  Cardinality({k \in 1..Len(edges) :
                 /\ edges[k].from = fromId
                 /\ edges[k].to = toId
                 /\ normalizeMode(edges[k].mode) = "road"}) = 1

\* the endpoint is joined, by one road edge each way, to the nearest node of
\* the type in the normalised network or, when the network has none, to a new
\* node of the type flagged ephemeral at the endpoint's coordinates
HasAccess(endpoint, ft) ==
  LET net == NormalizedInput
      candidates == {k \in 1..Len(net.nodes) : net.nodes[k].type = ft}
  IN IF candidates # {}
       THEN \E k \in candidates :
              /\ \A j \in candidates :
                   distanceKm(endpoint, net.nodes[k]) <= distanceKm(endpoint, net.nodes[j])
              /\ OneRoadEdge(endpoint.id, net.nodes[k].id)
              /\ OneRoadEdge(net.nodes[k].id, endpoint.id)
       ELSE \E k \in (Len(net.nodes) + 1)..Len(nodes) :
              /\ nodes[k].ephemeral
              /\ nodes[k].type = ft
              /\ nodes[k].lng = endpoint.lng
              /\ OneRoadEdge(endpoint.id, nodes[k].id)
              /\ OneRoadEdge(nodes[k].id, endpoint.id)

\* C15: after ensureFacilitiesForModes, for every facility type a non-road
\* mode of the allowed set requires and for each of origin and destination,
\* an endpoint that lacks the type has access to a facility of the type, and
\* every edge the call appended joins an endpoint that lacks a required type
\* to a node of that type
C15_FacilityAccess ==
  LatestEnsured =>
    LET t == tasks[LatestAttempted]
        net == NormalizedInput
        types == Range(requiredFacilityTypes(LatestModes))
        ends == {InputNode(t.originId), InputNode(t.destinationId)}
    IN /\ \A ft \in types : \A endpoint \in ends :
            endpoint.type # ft => HasAccess(endpoint, ft)
       /\ \A k \in (Len(net.edges) + 1)..Len(edges) :
            \E endpoint \in ends : \E ft \in types : \E j \in 1..Len(nodes) :
              /\ endpoint.type # ft
              /\ nodes[j].type = ft
              /\ \/ edges[k].from = endpoint.id /\ edges[k].to = nodes[j].id
                 \/ edges[k].to = endpoint.id /\ edges[k].from = nodes[j].id

\* the same on networks none of whose nodes carries an id of the EPH_ form
C15_FacilityAccessPlainIds ==
  (\A k \in 1..Len(NormalizedInput.nodes) : NormalizedInput.nodes[k].id # TakenId)
    => C15_FacilityAccess

-----------------------------------------------------------------------------
(* Properties of weights and of termination *)

\* C16: every edge of a graph that planOneTask hands to dijkstra has a weight
\* of zero or more
C16_NonNegativeWeights ==
  \A u \in DOMAIN graph.adj : \A k \in 1..Len(graph.adj[u]) :
    graph.adj[u][k].weight >= 0

\* no edge of the request carries a negative distance of its own
NoNegativeDistance ==
  \A k \in 1..Len(cloneArray(request.edges)) :
    LET e == cloneArray(request.edges)[k]
    IN IsNumber(e.distanceKm) => e.distanceKm[1] >= 0

\* the same on requests whose explicit distances are all zero or more
C16_NonNegativeWithoutNegativeDistance == NoNegativeDistance => C16_NonNegativeWeights

\* the legs of a solution visit no node twice
SimplePath(legs) ==
  /\ \A j, k \in 1..Len(legs) : j # k => legs[j].toId # legs[k].toId
  /\ \A k \in 1..Len(legs) : legs[k].toId # legs[1].fromId

\* C17: no call of dijkstra on a graph of buildGraph runs forever, so the
\* batch call is never stuck in a mode attempt, and every returned path
\* visits no node twice
C17_DijkstraTerminates ==
  /\ pc # "hung"
  /\ \A i \in 1..Len(planned) : Solved(i) => SimplePath(LegsOf(i))

\* the same on requests whose explicit distances are all zero or more
C17_TerminatesWithoutNegativeDistance == NoNegativeDistance => C17_DijkstraTerminates

-----------------------------------------------------------------------------
(* Properties of the ephemeral nodes of a solution *)

\* the ids of the nodes the latest attempt synthesized
EphemeralIds ==
  {nodes[k].id : k \in {j \in 1..Len(nodes) :
                          "ephemeral" \in DOMAIN nodes[j] /\ nodes[j].ephemeral}}

\* C18: the ephemeralNodes list of every returned solution is empty, and no
\* leg of the solution just returned starts or ends at a node the attempt
\* synthesized
C18_NoEphemeralInSolution ==
  /\ \A i \in 1..Len(planned) : Solved(i) => SolutionOf(i).ephemeralNodes = <<>>
  /\ LatestSolved =>
       \A k \in 1..Len(LegsOf(Len(planned))) :
         /\ LegsOf(Len(planned))[k].fromId \notin EphemeralIds
         /\ LegsOf(Len(planned))[k].toId \notin EphemeralIds

\* a solution was returned by an attempt that synthesized a facility node
C18_Witness ==
  /\ LatestSolved
  /\ EphemeralIds # {}
  /\ SolutionOf(Len(planned)).ephemeralNodes = <<>>

\* the same for a request one of whose edges names the id of the node that the
\* attempt synthesizes
C18_WitnessNamedByInput ==
  /\ C18_Witness
  /\ \E k \in 1..Len(cloneArray(request.edges)) :
       cloneArray(request.edges)[k].to \in EphemeralIds

-----------------------------------------------------------------------------
(* Tasks whose origin is their destination *)

\* task i names one id as its origin and as its destination
SameEndpoints(i) ==
  tasks[i].originId # <<>> /\ tasks[i].originId = tasks[i].destinationId

\* the call for task i returned a result whose solution is null: at once when
\* the network has no such node (line 733), and otherwise after it went
\* through every mode set and found no path in any of them
NullAfterEveryModeSet(i) ==
  /\ planned[i] = Fulfilled(NullResult(tasks[i]))
  /\ \/ Len(attemptLog[i]) = 1 /\ attemptLog[i][1].kind = "unknown"
     \/ /\ Len(attemptLog[i])
            = Len(decideModeAttempts(normalizeObjectiveToOutput(tasks[i].objectiveRaw)))
        /\ \A k \in 1..Len(attemptLog[i]) : attemptLog[i][k].kind = "nopath"

\* C19: a task whose originId equals its destinationId gets solution null,
\* whether or not the network has the node: no mode set yields a path
C19_SameEndpointsNull ==
  \A i \in 1..Len(planned) : SameEndpoints(i) => NullAfterEveryModeSet(i)

\* the same for ids that are not the name of a member every object inherits
C19_SameOwnEndpointsNull ==
  \A i \in 1..Len(planned) :
    SameEndpoints(i) /\ tasks[i].originId \notin ObjectPrototypeKeys
      => NullAfterEveryModeSet(i)

\* a task from a node of the network to itself got solution null after every
\* mode set found no path
C19_WitnessExistingNode ==
  \E i \in 1..Len(planned) :
    /\ SameEndpoints(i)
    /\ tasks[i].originId \in InputIds
    /\ NullAfterEveryModeSet(i)
    /\ \A k \in 1..Len(attemptLog[i]) : attemptLog[i][k].kind = "nopath"

====
